---- MODULE Spec2Model ----
(***************************************************************************)
(* Model of the Veritas monitoring pipeline: the Task Store, the Source    *)
(* Poller (producer/main.py), the Relevance Filter Worker                  *)
(* (consumer/main.py), the Feedback Worker (feedback_processor/main.py)    *)
(* and the owner operations of the mail gateway and of the Telegram bot.   *)
(*                                                                         *)
(* One Task table serves every service: a row has an owning principal      *)
(* (user_email / user_id), a status and a current_prompt. A session        *)
(* (get_db) reads the committed rows and its own flushed rows, commits     *)
(* when its block is left normally and rolls back when an exception        *)
(* leaves it. Queues are FIFO; a delivered message stays in its queue      *)
(* until it is acknowledged.                                               *)
(***************************************************************************)
EXTENDS Integers, Sequences, FiniteSets, TLC

\* ---------------------------------------------------------------- bounds
MaxTasks == 2        \* task ids handed out by the store's autoincrement
MaxItems == 2        \* distinct item ids a source can return
MaxBatch == 2        \* length of one scraped batch
NumPrincipals == 2   \* principals (mail senders / Telegram users)
NumPollers == 2      \* Producer processes
MaxCycles == 2       \* poll cycles one Producer process starts
MaxConcCycles == 1   \* poll cycles of each of two concurrent Producer processes
MaxRawData == 2      \* raw-content messages published in the Consumer's format
MaxFeedback == 2     \* feedback messages accepted by the mail gateway
max_retries == 3     \* OpenRouterClient.is_content_relevant: attempts per call
NumTexts == 2        \* distinct feedback texts
MaxMalformed == 1    \* undecodable bodies published to the queues
MaxRestarts == 1     \* Consumer processes started after the first one ended
MaxSends == 2        \* send_email calls counted for one message
MaxAckFailures == 1  \* basic_ack calls that raise, per worker kind
NumFeedbackWorkers == 2 \* Feedback Processor instances
PublishAttempts == 3 \* RabbitMQClient.publish: basic_publish attempts per call
mq_max_retries == 5  \* RabbitMQClient.__init__: max_retries, connection attempts per connect()
retry_delay == 5     \* RabbitMQClient.__init__: retry_delay, seconds between two attempts

Tasks == 1..MaxTasks
Items == 1..MaxItems
Principals == 1..NumPrincipals
Pollers == 1..NumPollers
Texts == 1..NumTexts
FeedbackWorkers == 1..NumFeedbackWorkers
Pairs == Tasks \X Items
Queues == {"raw_content_queue", "filtered_content_queue", "feedback_queue"}

\* A scraped batch: a list of item ids (both scrapers give every item an "id"; 0 stands
\* for an item without one, which process_task skips).
RECURSIVE SeqsUpTo(_, _)
SeqsUpTo(S, n) ==
    IF n = 0 THEN {<<>>}
    ELSE LET shorter == SeqsUpTo(S, n - 1)
         IN shorter \cup {Append(s, x) : s \in {q \in shorter : Len(q) = n - 1}, x \in S}

Batches == SeqsUpTo(Items, MaxBatch)

\* ----------------------------------------------------------------- state
VARIABLES
    tasks,            \* Task rows: [Tasks -> row], row.present = FALSE when no row
    nextTaskId,       \* autoincrement of tasks.id
    processed_items,  \* committed ProcessedItem rows: number of rows per (task_id, item_id)
    raw_queue,        \* raw_content_queue: sequence of messages
    notify_queue,     \* filtered_content_queue: sequence of messages
    feedback_queue,   \* feedback_queue: sequence of messages
    \* Producer processes
    ppc,              \* "sleep" | "loaded" | "batch"
    pTasks,           \* tasks loaded for the cycle and not yet processed
    pCur,             \* task being processed (0: none)
    pBatch,           \* the scraped batch of pCur
    pIdx,             \* index of the next item of pBatch
    pending,          \* ProcessedItem rows flushed in the open session, uncommitted
    cycles,           \* poll cycles started
    \* Consumer process
    cpc,              \* "idle" | "got" | "classify" | "notify" | "ack"; "dead": the
                      \* process has ended; "lost": it ended on a lost connection
    cmsg,             \* the delivered, unacknowledged message
    cprompt,          \* the prompt read for it
    cattempt,         \* classifier attempt number
    raw_unacked,      \* messages at the head of raw_queue delivered to the Consumer's
                      \* channel and not acknowledged
    \* Notifier process
    npc,              \* "idle" | "got"
    nmsg,             \* the delivered, unacknowledged message
    nAcked,           \* the delivered message was acknowledged
    nSends,           \* (history) send_email calls made for the message at the head of
                      \* filtered_content_queue, counted up to MaxSends
    nTried,           \* (history) send_email was called for the delivered message
    nSettle,          \* (history) the basic_ack / basic_nack calls process_message made for
                      \* the delivered message, in order
    nAckRaised,       \* (history) how many basic_ack calls of the Notifier have raised
    \* Feedback Processor instances (each variable is indexed by the instance)
    fpc,              \* "idle" | "got" | "write"
    fmsg,             \* the delivered, unacknowledged message
    fnew,             \* the prompt refine_prompt returned
    fAcked,           \* the delivered message was acknowledged
    frow,             \* the Task row the open session's query returned
    fidx,             \* position in feedback_queue of the message the instance holds
                      \* delivered and unacknowledged (0: none)
    \* history (not program state)
    pubCount,         \* RawContent messages the Producer published per (task_id, item_id)
    pubBy,            \* Producer processes that published (task_id, item_id)
    pActiveAtStart,   \* tasks whose status was active when the cycle started
    pFailed,          \* a poll cycle has failed (publish raised, or the process was killed)
    pLog,             \* per Producer: the process_task calls of the cycle that have ended,
                      \* in order, each with whether it raised
    pRaisedFor,       \* the (task_id, item_id) for which publish_message has raised
    rawData,          \* raw-content messages published in the Consumer's format
    cStatusAtLookup,  \* status of the task when process_message started on the message
    cClassified,      \* classifier calls made for the delivered message
    cNotified,        \* Notify messages published for the delivered message
    cAcked,           \* the delivered message was acknowledged
    cTimeouts,        \* classifier attempts for the delivered message that timed out
    cLast,            \* how the last classifier attempt for the delivered message ended
    cPub,             \* what the publish call made for the delivered message did
    cRaised,          \* is_content_relevant let an exception out
    cDeliveries,      \* times the message at the head of raw_queue was handed to wrapper()
    cRequeued,        \* messages the broker requeued when the Consumer process last ended
    cStarts,          \* Consumer processes started after the first one ended
    cConn,            \* what the connect() call of the last started Consumer process did
    cSleeps,          \* the waits, in seconds, is_content_relevant made for the delivered message
    malformedSent,    \* undecodable bodies published
    badRequeued,      \* workers that left an undecodable body in their queue
    fbSent,           \* feedback messages accepted
    fbDone,           \* per task: the feedback messages whose refinement was stored, in order
    fLast,            \* per task: the prompt written by the feedback transaction that
                      \* committed last (<<>>: none has committed)
    fRace,            \* the columns of the row that other transactions had changed between
                      \* the query and the UPDATE of the feedback transaction that
                      \* committed last
    fSettle,          \* per instance: the basic_ack / basic_nack calls process_message made
                      \* for the delivered message, in order
    fAckRaised        \* how many basic_ack calls of the Feedback Processor have raised

storeVars == <<tasks, nextTaskId, processed_items>>
queueVars == <<raw_queue, notify_queue, feedback_queue>>
pollerVars == <<ppc, pTasks, pCur, pBatch, pIdx, pending, cycles>>
pollerHist == <<pubCount, pubBy, pActiveAtStart, pFailed, pLog, pRaisedFor>>
consumerVars == <<cpc, cmsg, cprompt, cattempt, raw_unacked>>
consumerHist == <<rawData, cStatusAtLookup, cClassified, cNotified, cAcked, cTimeouts,
                  cLast, cPub, cRaised, cDeliveries, cRequeued, cStarts, cConn, cSleeps,
                  malformedSent,
                  badRequeued>>
notifierVars == <<npc, nmsg, nAcked, nSends, nTried, nSettle, nAckRaised>>
feedbackVars == <<fpc, fmsg, fnew, fAcked, frow, fidx>>
feedbackHist == <<fbSent, fbDone, fLast, fRace, fSettle, fAckRaised>>

vars == <<storeVars, queueVars, pollerVars, pollerHist, consumerVars,
          consumerHist, feedbackVars, feedbackHist, notifierVars>>

\* ------------------------------------------------------------ Task Store
\* A prompt is a list of texts: 0 is the text made from the owner's request, 1..NumTexts
\* are feedback texts worked in, Placeholder is the {{CONTENT}} token.
Placeholder == NumTexts + 1

\* generate_initial_prompt: the LLM's answer to "Output ONLY the prompt text", or the
\* fallback "Determine if this content is relevant to: {request_text}. ..."; neither
\* the instructions nor the fallback has a {{CONTENT}} token.
InitialPrompt == <<0>>

NoTask == [present |-> FALSE, user |-> 0, status |-> "none", current_prompt |-> <<>>,
           source_type |-> "none"]

\* Task(...) as the intake handlers construct it: status active.
NewTaskRow(sender) ==
    [present |-> TRUE, user |-> sender, status |-> "active", current_prompt |-> InitialPrompt,
     source_type |-> "rss"]

\* Task.get_by_id / query(Task).filter(Task.id == task_id).first(): the row with that
\* primary key, whatever its status (resume_task reads paused rows through it).
Task_get_by_id(T, task_id) ==
    IF task_id \in DOMAIN T /\ T[task_id].present THEN T[task_id] ELSE NoTask

\* Mutant of TaskOfSender: the owner filter is dropped.
TaskOfAnySender(T, task_id, sender) == Task_get_by_id(T, task_id)

\* query(Task).filter(Task.id == task_id, Task.user_email == sender_email).first()
TaskOfSender(T, task_id, sender) ==
    LET row == Task_get_by_id(T, task_id)
    IN IF row.present /\ row.user = sender THEN row ELSE NoTask

StatusOf(T, task_id) ==
    IF Task_get_by_id(T, task_id).present THEN T[task_id].status ELSE "missing"

\* What is recorded about one connect call before any was made.
NoConnect == [result |-> "none", attempts |-> 0, sleeps |-> <<>>, first |-> 0]

TypeOK ==
    /\ nextTaskId \in 1..(MaxTasks + 1)
    /\ \A t \in Tasks : tasks[t].status \in {"none", "active", "paused", "deleted"}
    /\ \A p \in Pollers : ppc[p] \in {"sleep", "loaded", "batch"}

Init ==
    /\ tasks = [t \in Tasks |-> NoTask]
    /\ nextTaskId = 1
    /\ processed_items = [pr \in Pairs |-> 0]
    /\ raw_queue = <<>>
    /\ notify_queue = <<>>
    /\ feedback_queue = <<>>
    /\ ppc = [p \in Pollers |-> "sleep"]
    /\ pTasks = [p \in Pollers |-> {}]
    /\ pCur = [p \in Pollers |-> 0]
    /\ pBatch = [p \in Pollers |-> <<>>]
    /\ pIdx = [p \in Pollers |-> 1]
    /\ pending = [p \in Pollers |-> {}]
    /\ cycles = [p \in Pollers |-> 0]
    /\ cpc = "idle"
    /\ cmsg = [task_id |-> 0, key |-> "none", item |-> 0]
    /\ cprompt = <<>>
    /\ cattempt = 0
    /\ raw_unacked = 0
    /\ npc = "idle"
    /\ nmsg = [task_id |-> 0, recipient |-> 0, kind |-> "none"]
    /\ nAcked = FALSE
    /\ nSends = 0
    /\ nTried = FALSE
    /\ nSettle = <<>>
    /\ nAckRaised = 0
    /\ fAcked = [w \in FeedbackWorkers |-> FALSE]
    /\ fpc = [w \in FeedbackWorkers |-> "idle"]
    /\ fmsg = [w \in FeedbackWorkers |->
                [task_id |-> 0, feedback |-> 0, current_prompt |-> <<>>, kind |-> "none"]]
    /\ fnew = [w \in FeedbackWorkers |-> <<>>]
    /\ frow = [w \in FeedbackWorkers |-> NoTask]
    /\ fidx = [w \in FeedbackWorkers |-> 0]
    /\ pubCount = [pr \in Pairs |-> 0]
    /\ pubBy = [pr \in Pairs |-> {}]
    /\ pActiveAtStart = [p \in Pollers |-> {}]
    /\ pFailed = FALSE
    /\ pLog = [p \in Pollers |-> <<>>]
    /\ pRaisedFor = {}
    /\ rawData = 0
    /\ cStatusAtLookup = "none"
    /\ cClassified = 0
    /\ cNotified = 0
    /\ cAcked = FALSE
    /\ cTimeouts = 0
    /\ cLast = "none"
    /\ cPub = [result |-> "none", enqueued |-> 0, attempts |-> 0, delivery_mode |-> 0]
    /\ cRaised = FALSE
    /\ cDeliveries = 0
    /\ cRequeued = 0
    /\ cStarts = 0
    /\ cConn = NoConnect
    /\ cSleeps = <<>>
    /\ malformedSent = 0
    /\ badRequeued = {}
    /\ fbSent = 0
    /\ fbDone = [t \in Tasks |-> <<>>]
    /\ fLast = [t \in Tasks |-> <<>>]
    /\ fRace = {}
    /\ fSettle = [w \in FeedbackWorkers |-> <<>>]
    /\ fAckRaised = 0

\* ------------------------------------------------ intake: handle_new_task
handle_new_task(sender) ==
    /\ nextTaskId <= MaxTasks
    /\ tasks' = [tasks EXCEPT ![nextTaskId] = NewTaskRow(sender)]
    /\ nextTaskId' = nextTaskId + 1
    /\ UNCHANGED <<processed_items, queueVars, pollerVars, pollerHist, consumerVars,
                   consumerHist, feedbackVars, feedbackHist, notifierVars>>

\* ------------------------------------- owner operations: mail gateway
notOwnerOps == <<processed_items, nextTaskId, queueVars, pollerVars, pollerHist,
                 consumerVars, consumerHist, feedbackVars, feedbackHist, notifierVars>>

\* What handle_pause_task returns to the sender: the kind of its reply text (every
\* text also names task_id).
MailPauseReply(T, sender, task_id) ==
    LET task == TaskOfSender(T, task_id, sender)
    IN IF ~task.present THEN "not_found_or_no_permission"
       ELSE IF task.status = "paused" THEN "already_paused"
       ELSE "paused"

MailResumeReply(T, sender, task_id) ==
    LET task == TaskOfSender(T, task_id, sender)
    IN IF ~task.present THEN "not_found_or_no_permission"
       ELSE IF task.status = "active" THEN "already_active"
       ELSE "resumed"

MailDeleteReply(T, sender, task_id) ==
    LET task == TaskOfSender(T, task_id, sender)
    IN IF ~task.present THEN "not_found_or_no_permission" ELSE "deleted"

handle_pause_task(sender, task_id) ==
    LET kind == MailPauseReply(tasks, sender, task_id)
    IN /\ tasks' = IF kind = "paused"
                   THEN [tasks EXCEPT ![task_id].status = "paused"]
                   ELSE tasks
       /\ UNCHANGED notOwnerOps

handle_resume_task(sender, task_id) ==
    LET kind == MailResumeReply(tasks, sender, task_id)
    IN /\ tasks' = IF kind = "resumed"
                   THEN [tasks EXCEPT ![task_id].status = "active"]
                   ELSE tasks
       /\ UNCHANGED notOwnerOps

handle_delete_task(sender, task_id) ==
    LET kind == MailDeleteReply(tasks, sender, task_id)
    IN /\ tasks' = IF kind = "deleted"
                   THEN [tasks EXCEPT ![task_id].status = "deleted"]
                   ELSE tasks
       /\ UNCHANGED notOwnerOps

\* ------------------------------------- owner operations: Telegram bot
BotPauseReply(T, user_id, task_id) ==
    LET task == Task_get_by_id(T, task_id)
    IN IF ~task.present THEN "not_found"
       ELSE IF task.user # user_id THEN "no_permission"
       ELSE IF task.status = "paused" THEN "already_paused"
       ELSE "paused"

BotResumeReply(T, user_id, task_id) ==
    LET task == Task_get_by_id(T, task_id)
    IN IF ~task.present THEN "not_found"
       ELSE IF task.user # user_id THEN "no_permission"
       ELSE IF task.status = "active" THEN "already_active"
       ELSE "resumed"

BotDeleteReply(T, user_id, task_id) ==
    LET task == Task_get_by_id(T, task_id)
    IN IF ~task.present THEN "not_found"
       ELSE IF task.user # user_id THEN "no_permission"
       ELSE "deleted"

pause_task(user_id, task_id) ==
    LET kind == BotPauseReply(tasks, user_id, task_id)
    IN /\ tasks' = IF kind = "paused"
                   THEN [tasks EXCEPT ![task_id].status = "paused"]
                   ELSE tasks
       /\ UNCHANGED notOwnerOps

resume_task(user_id, task_id) ==
    LET kind == BotResumeReply(tasks, user_id, task_id)
    IN /\ tasks' = IF kind = "resumed"
                   THEN [tasks EXCEPT ![task_id].status = "active"]
                   ELSE tasks
       /\ UNCHANGED notOwnerOps

\* session.delete(task): the row is removed; ProcessedItem rows carry no foreign key.
delete_task(user_id, task_id) ==
    LET kind == BotDeleteReply(tasks, user_id, task_id)
    IN /\ tasks' = IF kind = "deleted"
                   THEN [tasks EXCEPT ![task_id] = NoTask]
                   ELSE tasks
       /\ UNCHANGED notOwnerOps

MailOps ==
    \E sender \in Principals, task_id \in Tasks :
        \/ handle_pause_task(sender, task_id)
        \/ handle_resume_task(sender, task_id)
        \/ handle_delete_task(sender, task_id)

BotOps ==
    \E user_id \in Principals, task_id \in Tasks :
        \/ pause_task(user_id, task_id)
        \/ resume_task(user_id, task_id)
        \/ delete_task(user_id, task_id)

NewTask == \E sender \in Principals : handle_new_task(sender)

\* ------------------------------------------------- Producer (Source Poller)
notPoller == <<tasks, nextTaskId, notify_queue, feedback_queue, consumerVars,
               consumerHist, feedbackVars, feedbackHist, notifierVars>>

\* Mutant of ActiveTasks: the status filter is dropped.
ActiveTasksNoFilter(T) == {t \in Tasks : T[t].present}

\* db.query(Task).filter(Task.status == "active").all()
ActiveTasks(T) == {t \in Tasks : T[t].present /\ T[t].status = "active"}

\* Mutant of Existing: the lookup filters on item_id alone, so a row of any task hides
\* the item.
ExistingForAnyTask(p, task_id, item_id) ==
    \E t \in Tasks : processed_items[<<t, item_id>>] > 0 \/ <<t, item_id>> \in pending[p]

\* Mutant of Existing: only the rows of the open session are consulted.
ExistingInSessionOnly(p, task_id, item_id) == <<task_id, item_id>> \in pending[p]

\* db.query(ProcessedItem).filter(task_id == ..., item_id == ...).first(), read inside the
\* open session: the committed rows and the rows this session has flushed.
Existing(p, task_id, item_id) ==
    \/ processed_items[<<task_id, item_id>>] > 0
    \/ <<task_id, item_id>> \in pending[p]

\* The message process_task publishes to raw_content_queue.
RawContentMessage(task_id, item_id) == [task_id |-> task_id, key |-> "item", item |-> item_id]

\* Producer.run: a cycle starts, the active tasks are loaded.
PollerLoad(p) ==
    /\ ppc[p] = "sleep"
    /\ cycles[p] < MaxCycles
    /\ ppc' = [ppc EXCEPT ![p] = "loaded"]
    /\ pTasks' = [pTasks EXCEPT ![p] = ActiveTasks(tasks)]
    /\ cycles' = [cycles EXCEPT ![p] = @ + 1]
    /\ pActiveAtStart' = [pActiveAtStart EXCEPT ![p] = {t \in Tasks : StatusOf(tasks, t) = "active"}]
    /\ pLog' = [pLog EXCEPT ![p] = <<>>]
    /\ UNCHANGED <<pCur, pBatch, pIdx, pending, processed_items, raw_queue,
                   pubCount, pubBy, pFailed, pRaisedFor, notPoller>>

\* process_task, up to the opening of the session: the scraper returns a batch.
PollerScrape(p) ==
    /\ ppc[p] = "loaded"
    /\ \E t \in pTasks[p], b \in Batches :
        /\ pTasks' = [pTasks EXCEPT ![p] = @ \ {t}]
        /\ pCur' = [pCur EXCEPT ![p] = t]
        /\ pBatch' = [pBatch EXCEPT ![p] = b]
    /\ pIdx' = [pIdx EXCEPT ![p] = 1]
    /\ pending' = [pending EXCEPT ![p] = {}]
    /\ ppc' = [ppc EXCEPT ![p] = "batch"]
    /\ UNCHANGED <<cycles, processed_items, raw_queue, pollerHist, notPoller>>

\* One pass of the item loop that ends in "continue": no id, or already processed.
PollerSkipItem(p) ==
    /\ ppc[p] = "batch"
    /\ pIdx[p] <= Len(pBatch[p])
    /\ LET item_id == pBatch[p][pIdx[p]]
       IN IF item_id = 0 THEN TRUE ELSE Existing(p, pCur[p], item_id)
    /\ pIdx' = [pIdx EXCEPT ![p] = @ + 1]
    /\ UNCHANGED <<ppc, pTasks, pCur, pBatch, pending, cycles, processed_items,
                   raw_queue, pollerHist, notPoller>>

\* One pass of the item loop for a new item: add, flush, publish.
PollerPublishItem(p) ==
    /\ ppc[p] = "batch"
    /\ pIdx[p] <= Len(pBatch[p])
    /\ LET item_id == pBatch[p][pIdx[p]]
           pair == <<pCur[p], item_id>>
       IN /\ item_id # 0
          /\ ~Existing(p, pCur[p], item_id)
          /\ pending' = [pending EXCEPT ![p] = @ \cup {pair}]
          /\ raw_queue' = Append(raw_queue, RawContentMessage(pCur[p], item_id))
          /\ pubCount' = [pubCount EXCEPT ![pair] = @ + 1]
          /\ pubBy' = [pubBy EXCEPT ![pair] = @ \cup {p}]
    /\ pIdx' = [pIdx EXCEPT ![p] = @ + 1]
    /\ UNCHANGED <<ppc, pTasks, pCur, pBatch, cycles, processed_items,
                   pActiveAtStart, pFailed, pLog, pRaisedFor, notPoller>>

\* Mutant of TasksAfterFailure: the exception leaves the for loop and ends the cycle.
TasksAfterFailureAborts(remaining) == {}

\* Producer.run: process_task is called inside a try/except within the for loop, so an
\* exception it raises is printed and the loop goes on with the tasks that remain.
TasksAfterFailure(remaining) == remaining

\* process_task raises before its session is opened (get_scraper, scraper.scrape):
\* nothing was written, run() goes on with the next task.
PollerFetchRaises(p) ==
    /\ ppc[p] = "loaded"
    /\ \E t \in pTasks[p] :
        /\ pTasks' = [pTasks EXCEPT ![p] = TasksAfterFailure(@ \ {t})]
        /\ pLog' = [pLog EXCEPT ![p] = Append(@, [task |-> t, raised |-> TRUE])]
    /\ pFailed' = TRUE
    /\ UNCHANGED <<ppc, pCur, pBatch, pIdx, pending, cycles, processed_items, raw_queue,
                   pubCount, pubBy, pActiveAtStart, pRaisedFor, notPoller>>

\* The committed ProcessedItem rows after `rows` were added to them.
CommitRows(P, rows) == [pr \in Pairs |-> IF pr \in rows THEN P[pr] + 1 ELSE P[pr]]

\* Mutant of RolledBack: the session commits what it flushed also when an exception
\* leaves its block.
CommittedOnException(P, rows) == CommitRows(P, rows)

\* get_db when an exception leaves its block: the flushed rows are rolled back, the
\* committed rows stay as they were.
RolledBack(P, rows) == P

\* The same pass when publish_message raises: the exception leaves the session
\* block, which rolls the flushed rows back, and run() goes on with the next task.
PollerPublishRaises(p) ==
    /\ ppc[p] = "batch"
    /\ pIdx[p] <= Len(pBatch[p])
    /\ LET item_id == pBatch[p][pIdx[p]]
       IN item_id # 0 /\ ~Existing(p, pCur[p], item_id)
    /\ pending' = [pending EXCEPT ![p] = {}]
    /\ pCur' = [pCur EXCEPT ![p] = 0]
    /\ pBatch' = [pBatch EXCEPT ![p] = <<>>]
    /\ pIdx' = [pIdx EXCEPT ![p] = 1]
    /\ ppc' = [ppc EXCEPT ![p] = "loaded"]
    /\ pFailed' = TRUE
    /\ pTasks' = [pTasks EXCEPT ![p] = TasksAfterFailure(@)]
    /\ pLog' = [pLog EXCEPT ![p] = Append(@, [task |-> pCur[p], raised |-> TRUE])]
    /\ LET pair == <<pCur[p], pBatch[p][pIdx[p]]>>
       IN /\ processed_items' = RolledBack(processed_items, pending[p] \cup {pair})
          /\ pRaisedFor' = pRaisedFor \cup {pair}
    /\ UNCHANGED <<cycles, raw_queue, pubCount, pubBy, pActiveAtStart, notPoller>>

\* The item loop is over: the session block is left and commits.

PollerCommit(p) ==
    /\ ppc[p] = "batch"
    /\ pIdx[p] > Len(pBatch[p])
    /\ processed_items' = CommitRows(processed_items, pending[p])
    /\ pending' = [pending EXCEPT ![p] = {}]
    /\ pCur' = [pCur EXCEPT ![p] = 0]
    /\ pBatch' = [pBatch EXCEPT ![p] = <<>>]
    /\ pIdx' = [pIdx EXCEPT ![p] = 1]
    /\ ppc' = [ppc EXCEPT ![p] = "loaded"]
    /\ pLog' = [pLog EXCEPT ![p] = Append(@, [task |-> pCur[p], raised |-> FALSE])]
    /\ UNCHANGED <<pTasks, cycles, raw_queue, pubCount, pubBy, pActiveAtStart, pFailed,
                   pRaisedFor, notPoller>>

\* Every loaded task was processed: time.sleep(check_interval).
PollerSleep(p) ==
    /\ ppc[p] = "loaded"
    /\ pTasks[p] = {}
    /\ ppc' = [ppc EXCEPT ![p] = "sleep"]
    /\ UNCHANGED <<pTasks, pCur, pBatch, pIdx, pending, cycles, processed_items,
                   raw_queue, pollerHist, notPoller>>

\* The process is killed inside a task's session and started again: the open
\* transaction is lost, the messages already published stay in the queue.
PollerKilled(p) ==
    /\ ppc[p] = "batch"
    /\ pending' = [pending EXCEPT ![p] = {}]
    /\ pTasks' = [pTasks EXCEPT ![p] = {}]
    /\ pCur' = [pCur EXCEPT ![p] = 0]
    /\ pBatch' = [pBatch EXCEPT ![p] = <<>>]
    /\ pIdx' = [pIdx EXCEPT ![p] = 1]
    /\ ppc' = [ppc EXCEPT ![p] = "sleep"]
    /\ pFailed' = TRUE
    /\ UNCHANGED <<cycles, processed_items, raw_queue, pubCount, pubBy,
                   pActiveAtStart, pLog, pRaisedFor, notPoller>>

PollerStep(p) ==
    \/ PollerLoad(p)
    \/ PollerScrape(p)
    \/ PollerSkipItem(p)
    \/ PollerPublishItem(p)
    \/ PollerCommit(p)
    \/ PollerSleep(p)

PollerFailure(p) ==
    \/ PollerFetchRaises(p)
    \/ PollerPublishRaises(p)
    \/ PollerKilled(p)

\* One Producer process, no failure, owners operating on the tasks.
BotDelete == \E user_id \in Principals, task_id \in Tasks : delete_task(user_id, task_id)

NextPoll == NewTask \/ MailOps \/ BotDelete \/ PollerStep(1)
SpecPoll == Init /\ [][NextPoll]_vars

\* Two Producer processes running concurrently, no failure.
NextConc == NewTask \/ (\E p \in Pollers : PollerStep(p) /\ cycles'[p] <= MaxConcCycles)
SpecConc == Init /\ [][NextConc]_vars

\* One Producer process whose publish may raise and which may be killed.
NextFail == NewTask \/ PollerStep(1) \/ PollerFailure(1)
SpecFail == Init /\ [][NextFail]_vars

\* One Producer process whose fetch and whose publish may raise for any task.
NextIsolate == NewTask \/ PollerStep(1) \/ PollerFetchRaises(1) \/ PollerPublishRaises(1)
SpecIsolate == Init /\ [][NextIsolate]_vars

\* ------------------------------------------- Consumer (Relevance Filter Worker)
notConsumer == <<storeVars, feedback_queue, pollerVars, pollerHist, feedbackVars,
                 feedbackHist, notifierVars>>

\* What is recorded about one publish call before any was made.
NoPublish == [result |-> "none", enqueued |-> 0, attempts |-> 0, delivery_mode |-> 0]

\* A raw-content message in the format Consumer.process_message reads
\* (message["task_id"], message["data"]), published for an active task.
PublishRawData ==
    /\ rawData < MaxRawData
    /\ \E t \in ActiveTasks(tasks), i \in Items :
        raw_queue' = Append(raw_queue, [task_id |-> t, key |-> "data", item |-> i])
    /\ rawData' = rawData + 1
    /\ UNCHANGED <<notify_queue, consumerVars, cStatusAtLookup, cClassified, cNotified,
                   cAcked, cTimeouts, cLast, cPub, cRaised, cDeliveries, cRequeued,
                   cStarts, cConn, cSleeps, malformedSent, badRequeued, notConsumer>>

\* A body json.loads rejects, as it sits in each queue.
MalformedBody(queue) ==
    IF queue = "raw_content_queue" THEN [task_id |-> 0, key |-> "malformed", item |-> 0]
    ELSE IF queue = "feedback_queue"
    THEN [task_id |-> 0, feedback |-> 0, current_prompt |-> <<>>, kind |-> "malformed"]
    ELSE [task_id |-> 0, recipient |-> 0, kind |-> "malformed"]

\* Some client of the broker publishes an undecodable body to a queue.
PublishMalformed(queue) ==
    /\ malformedSent < MaxMalformed
    /\ malformedSent' = malformedSent + 1
    /\ raw_queue' = IF queue = "raw_content_queue"
                    THEN Append(raw_queue, MalformedBody(queue)) ELSE raw_queue
    /\ feedback_queue' = IF queue = "feedback_queue"
                         THEN Append(feedback_queue, MalformedBody(queue)) ELSE feedback_queue
    /\ notify_queue' = IF queue = "filtered_content_queue"
                       THEN Append(notify_queue, MalformedBody(queue)) ELSE notify_queue
    /\ UNCHANGED <<storeVars, pollerVars, pollerHist, consumerVars, rawData,
                   cStatusAtLookup, cClassified, cNotified, cAcked, cTimeouts, cLast, cPub,
                   cRaised, cDeliveries, cRequeued, cStarts, cConn, cSleeps, badRequeued,
                   feedbackVars,
                   feedbackHist, notifierVars>>

\* The values of cpc of a Consumer process that has ended.
Ended == {"dead", "lost"}

\* basic_consume on a channel on which basic_qos was never called: the broker sets no
\* limit on the messages it hands to the consumer before they are acknowledged.
PrefetchAllows(unacked) == TRUE

\* The broker hands the next ready message of raw_content_queue to the Consumer's
\* channel; the first raw_unacked messages of the queue are delivered and unacknowledged.
BrokerPush ==
    /\ cpc \notin Ended
    /\ raw_unacked < Len(raw_queue)
    /\ PrefetchAllows(raw_unacked)
    /\ raw_unacked' = raw_unacked + 1
    /\ UNCHANGED <<raw_queue, notify_queue, cpc, cmsg, cprompt, cattempt, consumerHist,
                   notConsumer>>

\* Mutant of ManualAck: basic_consume(..., auto_ack=True).
AutoAck == FALSE

\* basic_consume(queue=..., on_message_callback=wrapper): auto_ack is left at its
\* default, so a message leaves the queue only when basic_ack is sent for it.
ManualAck == TRUE

\* wrapper() is called with the oldest delivered message: json.loads(body). A body
\* that does not decode raises out of wrapper, start_consuming and start(): the process
\* ends, its channel closes and the broker requeues every unacknowledged message.
ConsumerDeliver ==
    /\ cpc = "idle"
    /\ raw_unacked >= 1
    /\ cStatusAtLookup' = "none"
    /\ cClassified' = 0
    /\ cNotified' = 0
    /\ cAcked' = FALSE
    /\ cTimeouts' = 0
    /\ cLast' = "none"
    /\ cPub' = NoPublish
    /\ cRaised' = FALSE
    /\ cDeliveries' = cDeliveries + 1
    /\ IF Head(raw_queue).key = "malformed"
       THEN /\ cpc' = "dead"
            /\ raw_unacked' = IF ManualAck THEN 0 ELSE raw_unacked - 1
            /\ raw_queue' = IF ManualAck THEN raw_queue ELSE Tail(raw_queue)
            /\ cRequeued' = IF ManualAck THEN raw_unacked ELSE raw_unacked - 1
            /\ badRequeued' = IF ManualAck THEN badRequeued \cup {"filter"} ELSE badRequeued
            /\ UNCHANGED cmsg
       ELSE /\ cpc' = "got"
            /\ cmsg' = Head(raw_queue)
            /\ raw_unacked' = IF ManualAck THEN raw_unacked ELSE raw_unacked - 1
            /\ raw_queue' = IF ManualAck THEN raw_queue ELSE Tail(raw_queue)
            /\ UNCHANGED <<cRequeued, badRequeued>>
    /\ cSleeps' = <<>>
    /\ UNCHANGED <<notify_queue, cprompt, cattempt, rawData, cStarts, cConn, malformedSent,
                   notConsumer>>

\* Consumer.get_task_prompt: the prompt of the row, None when there is no row.
get_task_prompt(T, task_id) ==
    LET task == Task_get_by_id(T, task_id)
    IN IF task.present THEN task.current_prompt ELSE <<>>

\* Consumer.get_chat_id: the recipient of the row, None (0) when there is no row.
get_chat_id(T, task_id) ==
    LET task == Task_get_by_id(T, task_id)
    IN IF task.present THEN task.user ELSE 0

\* Mutant of TasksAfterLookup: the lookup session pauses the row it read.
TasksAfterLookupTouches(T, task_id) ==
    IF Task_get_by_id(T, task_id).present THEN [T EXCEPT ![task_id].status = "paused"] ELSE T

\* get_task_prompt / get_chat_id: the session_scope block only reads an attribute of
\* the row, so the commit at its end writes nothing.
TasksAfterLookup(T, task_id) == T

\* process_message up to the classifier call: message["data"] raises KeyError on a
\* message without that key (caught by the handler's except); no prompt: return.
ConsumerReadPrompt ==
    /\ cpc = "got"
    /\ cStatusAtLookup' = StatusOf(tasks, cmsg.task_id)
    /\ LET prompt == get_task_prompt(tasks, cmsg.task_id)
       IN IF cmsg.key # "data" \/ prompt = <<>>
          THEN /\ cpc' = "ack"
               /\ UNCHANGED cprompt
          ELSE /\ cpc' = "classify"
               /\ cprompt' = prompt
    /\ cattempt' = 0
    /\ tasks' = IF cmsg.key # "data" THEN tasks ELSE TasksAfterLookup(tasks, cmsg.task_id)
    /\ UNCHANGED <<cmsg, raw_unacked, raw_queue, notify_queue, rawData, cClassified,
                   cNotified, cAcked, cTimeouts, cLast, cPub, cRaised, cDeliveries,
                   cRequeued, cStarts, cConn, cSleeps, malformedSent, badRequeued, nextTaskId,
                   processed_items, feedback_queue, pollerVars, pollerHist, feedbackVars,
                   feedbackHist, notifierVars>>

\* The request of one attempt of is_content_relevant's retry loop, by how it ends: an
\* answer that starts with YES, another answer, requests.exceptions.Timeout, another
\* RequestException, a KeyError / IndexError / ValueError while the answer is taken
\* apart, any other exception.
ClassifierOutcomes == {"yes", "no", "timeout", "request_error", "parse_error", "other_error"}

\* Mutant of RetryAllowed: the loop has no cap.
RetryAlways(attempt) == TRUE

\* for attempt in range(max_retries): a further attempt follows attempt number
\* `attempt` (counted from 0).
RetryAllowed(attempt) == attempt < max_retries - 1

\* Mutant of AttemptResult: the Timeout handler returns False at once.
AttemptResultNoRetry(outcome, attempt) ==
    IF outcome = "yes" THEN "relevant"
    ELSE IF outcome \in {"no", "parse_error", "timeout"} THEN "not_relevant"
    ELSE IF RetryAllowed(attempt) THEN "retry" ELSE "not_relevant"

\* Mutant of AttemptResult: the parse errors are not caught.
AttemptResultUncaught(outcome, attempt) ==
    IF outcome = "yes" THEN "relevant"
    ELSE IF outcome = "no" THEN "not_relevant"
    ELSE IF outcome = "parse_error" THEN "raise"
    ELSE IF RetryAllowed(attempt) THEN "retry" ELSE "not_relevant"

\* What one pass of the retry loop does with the outcome of its request: return True,
\* return False, go round again, or let an exception out of is_content_relevant. After
\* the last pass the loop is left and False is returned.
AttemptResult(outcome, attempt) ==
    IF outcome = "yes" THEN "relevant"
    ELSE IF outcome \in {"no", "parse_error"} THEN "not_relevant"
    ELSE IF RetryAllowed(attempt) THEN "retry" ELSE "not_relevant"

\* Mutant of Backoff: the same wait before every retry.
BackoffFixed(attempt) == 2

\* time.sleep(2 ** attempt), made before the retry that follows attempt number
\* `attempt` (counted from 0).
Backoff(attempt) == 2 ^ attempt

\* One attempt of is_content_relevant, and what process_message does with a verdict
\* (an exception out of the call is caught by process_message's except).
ConsumerClassify(outcome) ==
    /\ cpc = "classify"
    /\ cClassified' = cClassified + 1
    /\ cTimeouts' = IF outcome = "timeout" THEN cTimeouts + 1 ELSE cTimeouts
    /\ cLast' = outcome
    /\ LET result == AttemptResult(outcome, cattempt)
       IN /\ cpc' = IF result = "relevant" THEN "notify"
                    ELSE IF result = "retry" THEN "classify"
                    ELSE "ack"
          /\ cattempt' = IF result = "retry" THEN cattempt + 1 ELSE cattempt
          /\ cRaised' = (result = "raise")
          /\ cSleeps' = IF result = "retry" THEN Append(cSleeps, Backoff(cattempt))
                          ELSE cSleeps
    /\ UNCHANGED <<cmsg, cprompt, raw_unacked, raw_queue, notify_queue, rawData,
                   cStatusAtLookup, cNotified, cAcked, cPub, cDeliveries, cRequeued,
                   cStarts, cConn, malformedSent, badRequeued, notConsumer>>

\* The message process_message publishes to filtered_content_queue.
NotifyMessage(task_id, chat_id) == [task_id |-> task_id, recipient |-> chat_id, kind |-> "content"]

\* The outcomes of the basic_publish calls one publish call can make: TRUE when the
\* call returns, FALSE when it (or the connect before it) raises.
PublishOutcomes == [1..PublishAttempts -> BOOLEAN]

\* Mutant of publish: the final raise is missing, the loop is left and publish returns.
RECURSIVE publishNoRaise(_, _)
publishNoRaise(outs, retries) ==
    IF ~(retries < PublishAttempts)
    THEN [result |-> "returned", enqueued |-> 0, attempts |-> retries, delivery_mode |-> 0]
    ELSE IF outs[retries + 1]
    THEN [result |-> "returned", enqueued |-> 1, attempts |-> retries + 1, delivery_mode |-> 2]
    ELSE publishNoRaise(outs, retries + 1)

\* RabbitMQClient.publish from the top of its while loop with `retries` failures so
\* far: whether it returns or raises, how many messages it has handed to the broker,
\* how many basic_publish attempts it has made, and the delivery_mode of the message.
RECURSIVE publish(_, _)
publish(outs, retries) ==
    IF ~(retries < PublishAttempts)
    THEN [result |-> "returned", enqueued |-> 0, attempts |-> retries, delivery_mode |-> 0]
    ELSE IF outs[retries + 1]
    THEN [result |-> "returned", enqueued |-> 1, attempts |-> retries + 1, delivery_mode |-> 2]
    ELSE IF retries + 1 < PublishAttempts
    THEN publish(outs, retries + 1)
    ELSE [result |-> "raised", enqueued |-> 0, attempts |-> retries + 1, delivery_mode |-> 0]

\* The content is relevant: read the chat id (none: return), format, publish. When
\* publish raises, process_message's except logs the error.
ConsumerNotify(outs) ==
    /\ cpc = "notify"
    /\ LET chat_id == get_chat_id(tasks, cmsg.task_id)
           published == publish(outs, 0)
       IN IF chat_id = 0
          THEN UNCHANGED <<notify_queue, cNotified, cPub>>
          ELSE /\ cPub' = published
               /\ cNotified' = cNotified + published.enqueued
               /\ notify_queue' = IF published.enqueued = 1
                                  THEN Append(notify_queue, NotifyMessage(cmsg.task_id, chat_id))
                                  ELSE notify_queue
    /\ cpc' = "ack"
    /\ UNCHANGED <<cmsg, cprompt, cattempt, raw_unacked, raw_queue, rawData,
                   cStatusAtLookup, cClassified, cAcked, cTimeouts, cLast, cRaised,
                   cDeliveries, cRequeued, cStarts, cConn, cSleeps, malformedSent, badRequeued,
                   notConsumer>>

\* wrapper(): the callback has returned, basic_ack removes the message.
ConsumerAck ==
    /\ cpc = "ack"
    /\ raw_queue' = IF ManualAck THEN Tail(raw_queue) ELSE raw_queue
    /\ raw_unacked' = IF ManualAck THEN raw_unacked - 1 ELSE raw_unacked
    /\ cpc' = "idle"
    /\ cAcked' = TRUE
    /\ cDeliveries' = 0
    /\ UNCHANGED <<cmsg, cprompt, cattempt, notify_queue, rawData, cStatusAtLookup,
                   cClassified, cNotified, cTimeouts, cLast, cPub, cRaised, cRequeued,
                   cStarts, cConn, cSleeps, malformedSent, badRequeued, notConsumer>>

\* The Consumer process is terminated abruptly: its channel closes and the broker
\* requeues every message delivered on it and not acknowledged.
ConsumerKilled ==
    /\ cpc \notin Ended
    /\ cpc' = "dead"
    /\ cRequeued' = raw_unacked
    /\ raw_unacked' = 0
    /\ UNCHANGED <<cmsg, cprompt, cattempt, raw_queue, notify_queue, rawData,
                   cStatusAtLookup, cClassified, cNotified, cAcked, cTimeouts, cLast, cPub,
                   cRaised, cDeliveries, cStarts, cConn, cSleeps, malformedSent, badRequeued,
                   notConsumer>>

\* The connection to the broker is lost while the Consumer is inside
\* start_consuming(): pika raises out of start_consuming, consume() and start() have no
\* handler for it, so the process ends; the broker requeues what the closed channel
\* had not acknowledged.
ConsumerConnectionLost ==
    /\ cpc \notin Ended
    /\ cpc' = "lost"
    /\ cRequeued' = raw_unacked
    /\ raw_unacked' = 0
    /\ UNCHANGED <<cmsg, cprompt, cattempt, raw_queue, notify_queue, rawData,
                   cStatusAtLookup, cClassified, cNotified, cAcked, cTimeouts, cLast, cPub,
                   cRaised, cDeliveries, cStarts, cConn, cSleeps, malformedSent, badRequeued,
                   notConsumer>>

\* What the broker answers to each connection attempt of one connect() call.
ConnectOutcomes == [1..mq_max_retries -> BOOLEAN]

\* The first attempt of a connect() call that the broker accepts (0: none).
FirstSuccess(outs) ==
    IF \E k \in DOMAIN outs : outs[k]
    THEN CHOOSE k \in DOMAIN outs : outs[k] /\ \A j \in 1..(k - 1) : ~outs[j]
    ELSE 0

\* Mutant of connect: the exception is raised one attempt early.
RECURSIVE connectGivesUpEarly(_, _, _)
connectGivesUpEarly(outs, retries, slept) ==
    IF retries >= mq_max_retries
    THEN [result |-> "returned", attempts |-> retries, sleeps |-> slept]
    ELSE IF outs[retries + 1]
    THEN [result |-> "connected", attempts |-> retries + 1, sleeps |-> slept]
    ELSE IF retries + 1 < mq_max_retries - 1
    THEN connectGivesUpEarly(outs, retries + 1, Append(slept, retry_delay))
    ELSE [result |-> "raised", attempts |-> retries + 1, sleeps |-> slept]

\* RabbitMQClient.connect: while retries < max_retries, one attempt; it returns when
\* the attempt succeeds; when it fails retries is incremented, then either
\* time.sleep(retry_delay) and the next attempt, or, after the max_retries-th failure,
\* the exception is raised. `slept` is the list of the waits made so far.
RECURSIVE connect(_, _, _)
connect(outs, retries, slept) ==
    IF retries >= mq_max_retries
    THEN [result |-> "returned", attempts |-> retries, sleeps |-> slept]
    ELSE IF outs[retries + 1]
    THEN [result |-> "connected", attempts |-> retries + 1, sleeps |-> slept]
    ELSE IF retries + 1 < mq_max_retries
    THEN connect(outs, retries + 1, Append(slept, retry_delay))
    ELSE [result |-> "raised", attempts |-> retries + 1, sleeps |-> slept]

\* A Consumer process is started: Consumer() and start() connect and subscribe to the
\* queue; when connect() raises the new process ends at once.
ConsumerStartWith(Outcomes) ==
    /\ cpc \in Ended
    /\ cStarts < MaxRestarts
    /\ cStarts' = cStarts + 1
    /\ \E outs \in Outcomes :
        LET call == connect(outs, 0, <<>>)
        IN /\ cpc' = IF call.result = "connected" THEN "idle" ELSE "dead"
           /\ cConn' = [result |-> call.result, attempts |-> call.attempts,
                        sleeps |-> call.sleeps, first |-> FirstSuccess(outs)]
    /\ UNCHANGED <<cmsg, cprompt, cattempt, raw_unacked, raw_queue, notify_queue, rawData,
                   cStatusAtLookup, cClassified, cNotified, cAcked, cTimeouts, cLast, cPub,
                   cRaised, cDeliveries, cRequeued, cSleeps, malformedSent, badRequeued,
                   notConsumer>>

\* A start while the broker may refuse any of the connection attempts.
ConsumerStart == ConsumerStartWith(ConnectOutcomes)

\* A start while the broker is up: the first connection attempt succeeds.
BrokerUp == {[k \in 1..mq_max_retries |-> TRUE]}

ConsumerRestart == ConsumerStartWith(BrokerUp)

ConsumerStep ==
    \/ BrokerPush
    \/ ConsumerDeliver
    \/ ConsumerReadPrompt
    \/ \E outcome \in ClassifierOutcomes : ConsumerClassify(outcome)
    \/ \E outs \in PublishOutcomes : ConsumerNotify(outs)
    \/ ConsumerAck

ConsumerFailure ==
    \/ ConsumerKilled
    \/ ConsumerRestart

\* The Consumer's steps when the classifier answers every request and the broker
\* accepts every publish.
ConsumerStepNoFailure ==
    \/ BrokerPush
    \/ ConsumerDeliver
    \/ ConsumerReadPrompt
    \/ \E outcome \in {"yes", "no"} : ConsumerClassify(outcome)
    \/ ConsumerNotify([k \in 1..PublishAttempts |-> TRUE])
    \/ ConsumerAck

\* The Filter Worker whose broker connection may be lost while it consumes; a
\* Consumer process may be started after one has ended.
NextConn == NewTask \/ PublishRawData \/ ConsumerStepNoFailure \/ ConsumerConnectionLost
            \/ ConsumerStart
SpecConn == Init /\ [][NextConn]_vars

\* The Filter Worker, fed in its own message format, with owners operating on the tasks.
NextFilter == NewTask \/ MailOps \/ BotOps \/ PublishRawData \/ ConsumerStepNoFailure
SpecFilter == Init /\ [][NextFilter]_vars

\* The Filter Worker with a classifier and a broker that may fail at every call; a
\* task may be deleted while its message is processed.
NextRetry == NewTask \/ BotDelete \/ PublishRawData \/ ConsumerStep
SpecRetry == Init /\ [][NextRetry]_vars

\* --------------------------------------------------------- feedback intake
notFeedback == <<nextTaskId, processed_items, raw_queue, pollerVars, pollerHist,
                 consumerVars, rawData, cStatusAtLookup, cClassified, cNotified, cAcked,
                 cTimeouts, cLast, cPub, cRaised, cDeliveries, cRequeued, cStarts, cConn, cSleeps,
                 malformedSent, notifierVars>>

\* The message handle_feedback publishes to the feedback queue: the task's prompt
\* as read at intake travels in it.
FeedbackMessage(task_id, text, T) ==
    [task_id |-> task_id, feedback |-> text, current_prompt |-> T[task_id].current_prompt,
     kind |-> "feedback"]

\* handle_feedback: the task must belong to the sender; then the message is published.
handle_feedback(sender, task_id, text) ==
    /\ fbSent < MaxFeedback
    /\ TaskOfSender(tasks, task_id, sender).present
    /\ feedback_queue' = Append(feedback_queue, FeedbackMessage(task_id, text, tasks))
    /\ fbSent' = fbSent + 1
    /\ UNCHANGED <<tasks, notify_queue, feedbackVars, fbDone, fLast, fRace, fSettle,
                   fAckRaised, badRequeued, notFeedback>>

\* The message MasterBot.process_feedback publishes: the text travels under the key
\* "feedback_text", so data.get("feedback") in the Feedback Processor gives None (0).
BotFeedbackMessage(task_id, T) ==
    [task_id |-> task_id, feedback |-> 0, current_prompt |-> T[task_id].current_prompt,
     kind |-> "feedback"]

\* MasterBot.process_feedback: the callback of a notification button pressed by
\* user_id, carrying "task_id:feedback_type". The task is looked up by id alone; when it
\* exists the message is published, whoever pressed; when it does not, "Task not found."
process_feedback(user_id, task_id) ==
    /\ fbSent < MaxFeedback
    /\ IF Task_get_by_id(tasks, task_id).present
       THEN /\ feedback_queue' = Append(feedback_queue, BotFeedbackMessage(task_id, tasks))
            /\ fbSent' = fbSent + 1
       ELSE UNCHANGED <<feedback_queue, fbSent>>
    /\ UNCHANGED <<tasks, notify_queue, feedbackVars, fbDone, fLast, fRace, fSettle,
                   fAckRaised, badRequeued, notFeedback>>

BotFeedback == \E user_id \in Principals, task_id \in Tasks : process_feedback(user_id, task_id)

\* ------------------------------------------------------ Feedback Processor
\* The improved prompt the LLM returns: the prompt it was given, with the feedback
\* worked in.
Refined(prompt, feedback) == Append(prompt, feedback)

RefineOutcomes == {"ok", "invalid", "api_error", "exception", "no_key"}

\* FeedbackProcessor.refine_prompt: the improved prompt, or the prompt it was given
\* when the key is missing, the call fails or the answer is too short.
refine_prompt(current_prompt, feedback, outcome) ==
    IF outcome = "ok" THEN Refined(current_prompt, feedback) ELSE current_prompt

\* The prompt process_message hands to refine_prompt: data.get("current_prompt").
PromptToRefine(msg, T) == msg.current_prompt

\* The queue without its k-th message.
RemoveAt(q, k) == SubSeq(q, 1, k - 1) \o SubSeq(q, k + 1, Len(q))

\* The positions of feedback_queue that the other instances hold unacknowledged.
HeldByOthers(w) == {fidx[v] : v \in FeedbackWorkers \ {w}} \ {0}

\* The broker hands instance w the oldest message no instance holds.
FeedbackDeliver(w) ==
    /\ fpc[w] = "idle"
    /\ \E k \in 1..Len(feedback_queue) :
        /\ k \notin HeldByOthers(w)
        /\ \A j \in 1..(k - 1) : j \in HeldByOthers(w)
        /\ fmsg' = [fmsg EXCEPT ![w] = feedback_queue[k]]
        /\ fidx' = [fidx EXCEPT ![w] = k]
    /\ fpc' = [fpc EXCEPT ![w] = "got"]
    /\ fAcked' = [fAcked EXCEPT ![w] = FALSE]
    /\ fSettle' = [fSettle EXCEPT ![w] = <<>>]
    /\ UNCHANGED <<tasks, feedback_queue, notify_queue, fnew, frow, fbSent, fbDone, fLast,
                   fRace, fAckRaised, badRequeued, notFeedback>>

\* process_message up to the assignment of the new prompt: json.loads, refine_prompt,
\* then the session is opened and the row is queried. A body that does not decode
\* raises inside the try: basic_nack(requeue=True).
FeedbackRefine(w, outcome) ==
    /\ fpc[w] = "got"
    /\ IF fmsg[w].kind = "malformed"
       THEN /\ fpc' = [fpc EXCEPT ![w] = "idle"]
            /\ fidx' = [fidx EXCEPT ![w] = 0]
            /\ badRequeued' = badRequeued \cup {"feedback"}
            /\ fSettle' = [fSettle EXCEPT ![w] = <<"nack">>]
            /\ UNCHANGED <<fnew, frow>>
       ELSE /\ fnew' = [fnew EXCEPT ![w] =
                          refine_prompt(PromptToRefine(fmsg[w], tasks), fmsg[w].feedback,
                                        outcome)]
            /\ frow' = [frow EXCEPT ![w] = Task_get_by_id(tasks, fmsg[w].task_id)]
            /\ fpc' = [fpc EXCEPT ![w] = "write"]
            /\ UNCHANGED <<badRequeued, fidx, fSettle>>
    /\ UNCHANGED <<tasks, feedback_queue, notify_queue, fmsg, fAcked, fbSent, fbDone, fLast,
                   fRace, fAckRaised, notFeedback>>

\* The confirmation process_message publishes to filtered_content_queue.
ConfirmationMessage(task_id, user_email) ==
    [task_id |-> task_id, recipient |-> user_email, kind |-> "feedback_received"]

\* Mutant of RowAfterPromptUpdate: the UPDATE writes every column of the object as it
\* was read.
RowWriteBackStale(row_now, row_read, new_prompt) ==
    [row_read EXCEPT !.current_prompt = new_prompt]

\* Mutant of RowAfterPromptUpdate: the UPDATE also rewrites the source descriptor.
RowUpdateTouchesSource(row_now, row_read, new_prompt) ==
    [row_now EXCEPT !.current_prompt = new_prompt, !.source_type = "none"]

\* Mutant of RowAfterPromptUpdate: the UPDATE applies only when the prompt is still the
\* one that was read.
RowUpdateIfUnchanged(row_now, row_read, new_prompt) ==
    IF row_now.current_prompt = row_read.current_prompt
    THEN [row_now EXCEPT !.current_prompt = new_prompt]
    ELSE row_now

\* task.current_prompt = new_prompt; db.flush(): the session emits an UPDATE of the
\* one attribute that was assigned, whatever the row holds by now in its other columns.
RowAfterPromptUpdate(row_now, row_read, new_prompt) ==
    [row_now EXCEPT !.current_prompt = new_prompt]

\* The rest of the session block: the row that was read is updated, the confirmation
\* published, the transaction committed. No row was read: nothing is written.
SessionBlock(w) ==
    /\ fpc[w] = "write"
    /\ LET task_id == fmsg[w].task_id
           task == frow[w]
           row_now == Task_get_by_id(tasks, task_id)
       IN IF task.present
          THEN /\ row_now.present
               /\ tasks' = [tasks EXCEPT ![task_id] =
                               RowAfterPromptUpdate(row_now, task, fnew[w])]
               /\ notify_queue' = Append(notify_queue,
                                         ConfirmationMessage(task_id, task.user))
               /\ fbDone' = IF fnew[w] # fmsg[w].current_prompt
                            THEN [fbDone EXCEPT ![task_id] =
                                    Append(@, [feedback |-> fmsg[w].feedback,
                                               snapshot |-> fmsg[w].current_prompt])]
                            ELSE fbDone
               /\ fLast' = [fLast EXCEPT ![task_id] = fnew[w]]
               /\ fRace' = {c \in {"status", "current_prompt"} : row_now[c] # task[c]}
          ELSE UNCHANGED <<tasks, notify_queue, fbDone, fLast, fRace>>
    /\ fpc' = [fpc EXCEPT ![w] = "idle"]
    /\ frow' = [frow EXCEPT ![w] = NoTask]
    /\ UNCHANGED <<fmsg, fnew, fbSent, badRequeued, notFeedback>>

\* The session block, then basic_ack: the message leaves the queue.
FeedbackWrite(w) ==
    /\ SessionBlock(w)
    /\ feedback_queue' = RemoveAt(feedback_queue, fidx[w])
    /\ fidx' = [v \in FeedbackWorkers |->
                  IF v = w THEN 0
                  ELSE IF fidx[v] > fidx[w] THEN fidx[v] - 1 ELSE fidx[v]]
    /\ fAcked' = [fAcked EXCEPT ![w] = TRUE]
    /\ fSettle' = [fSettle EXCEPT ![w] = <<"ack">>]
    /\ UNCHANGED fAckRaised

\* The session block, then basic_ack raises (the channel was closed while the handler
\* ran): the call is inside the try, so the except clause calls basic_nack for the
\* same delivery tag. The transaction is committed already; the broker, which saw
\* neither call, keeps the message for redelivery.
FeedbackAckRaises(w) ==
    /\ fAckRaised < MaxAckFailures
    /\ SessionBlock(w)
    /\ fidx' = [fidx EXCEPT ![w] = 0]
    /\ fSettle' = [fSettle EXCEPT ![w] = <<"ack", "nack">>]
    /\ fAckRaised' = fAckRaised + 1
    /\ UNCHANGED <<feedback_queue, fAcked>>

\* The same block when it raises (publish_message fails, or the flush finds that the
\* row was deleted since the query): the exception leaves the session block
\* (rollback) and the handler's except sends basic_nack(requeue=True).
FeedbackWriteRaises(w) ==
    /\ fpc[w] = "write"
    /\ frow[w].present
    /\ fpc' = [fpc EXCEPT ![w] = "idle"]
    /\ fidx' = [fidx EXCEPT ![w] = 0]
    /\ frow' = [frow EXCEPT ![w] = NoTask]
    /\ fSettle' = [fSettle EXCEPT ![w] = <<"nack">>]
    /\ UNCHANGED <<tasks, feedback_queue, notify_queue, fmsg, fnew, fAcked, fbSent, fbDone,
                   fLast, fRace, fAckRaised, badRequeued, notFeedback>>

FeedbackIntake ==
    \E sender \in Principals, task_id \in Tasks, text \in Texts :
        handle_feedback(sender, task_id, text)

FeedbackStep(w) ==
    \/ FeedbackDeliver(w)
    \/ \E outcome \in RefineOutcomes : FeedbackRefine(w, outcome)
    \/ FeedbackWrite(w)
    \/ FeedbackWriteRaises(w)

\* ---------------------------------------------------------------- Notifier
notNotifier == <<storeVars, raw_queue, feedback_queue, pollerVars, pollerHist,
                 consumerVars, rawData, cStatusAtLookup, cClassified, cNotified, cAcked,
                 cTimeouts, cLast, cPub, cRaised, cDeliveries, cRequeued, cStarts, cConn, cSleeps,
                 malformedSent, feedbackVars, feedbackHist>>

\* The message at the head of filtered_content_queue is delivered to process_message.
NotifierDeliver ==
    /\ npc = "idle"
    /\ notify_queue # <<>>
    /\ nmsg' = Head(notify_queue)
    /\ npc' = "got"
    /\ nAcked' = FALSE
    /\ nTried' = FALSE
    /\ nSettle' = <<>>
    /\ UNCHANGED <<notify_queue, nSends, nAckRaised, badRequeued, notNotifier>>

SendOutcomes == {"sent", "smtp_error"}

\* Notifier.process_message: a body that does not decode raises inside the try
\* (basic_nack, requeue); a message without user_email, subject or body (the Consumer's
\* messages carry telegram_chat_id and formatted_message) is acknowledged unsent;
\* otherwise send_email, then basic_ack, or basic_nack(requeue=True) when it raises.
NotifierProcess(outcome) ==
    /\ npc = "got"
    /\ npc' = "idle"
    /\ IF nmsg.kind = "malformed"
       THEN /\ badRequeued' = badRequeued \cup {"notifier"}
            /\ nSettle' = <<"nack">>
            /\ UNCHANGED <<notify_queue, nAcked, nSends, nTried>>
       ELSE /\ notify_queue' = IF nmsg.kind = "content" \/ outcome = "sent"
                               THEN Tail(notify_queue)
                               ELSE notify_queue
            /\ nAcked' = (nmsg.kind = "content" \/ outcome = "sent")
            /\ nTried' = (nmsg.kind # "content")
            /\ nSends' = IF nmsg.kind = "content" \/ outcome = "sent" THEN 0
                         ELSE IF nSends < MaxSends THEN nSends + 1 ELSE nSends
            /\ nSettle' = IF nmsg.kind = "content" \/ outcome = "sent"
                           THEN <<"ack">> ELSE <<"nack">>
            /\ UNCHANGED badRequeued
    /\ UNCHANGED <<nmsg, nAckRaised, notNotifier>>

\* Notifier.process_message when basic_ack raises, after the invalid-format check or
\* after send_email has sent: the except clause calls basic_nack for the same delivery
\* tag, and the message stays in the queue.
NotifierAckRaises ==
    /\ nAckRaised < MaxAckFailures
    /\ npc = "got"
    /\ nmsg.kind # "malformed"
    /\ npc' = "idle"
    /\ nTried' = (nmsg.kind # "content")
    /\ nSettle' = <<"ack", "nack">>
    /\ nAckRaised' = nAckRaised + 1
    /\ UNCHANGED <<notify_queue, nmsg, nAcked, nSends, badRequeued, notNotifier>>

NotifierStep ==
    \/ NotifierDeliver
    \/ \E outcome \in SendOutcomes : NotifierProcess(outcome)

\* The Consumer behind the broker, its process ending and starting again, with
\* undecodable bodies in the queues.
NextBroker ==
    \/ NewTask
    \/ PublishRawData
    \/ \E queue \in Queues : PublishMalformed(queue)
    \/ ConsumerStepNoFailure
    \/ ConsumerFailure
SpecBroker == Init /\ [][NextBroker]_vars

\* The same with the Feedback Processor beside it, for one raw-content message and
\* one feedback message.
NextRedeliver ==
    \/ NewTask
    \/ (PublishRawData /\ rawData' <= 1)
    \/ \E queue \in Queues : PublishMalformed(queue)
    \/ ConsumerStepNoFailure
    \/ ConsumerFailure
    \/ (FeedbackIntake /\ fbSent' <= 1)
    \/ FeedbackStep(1)
SpecRedeliver == Init /\ [][NextRedeliver]_vars

\* The three workers receiving undecodable bodies; a Consumer process is started
\* again when one has ended.
NextMalformed ==
    \/ NewTask
    \/ \E queue \in Queues : PublishMalformed(queue)
    \/ BrokerPush
    \/ ConsumerDeliver
    \/ ConsumerRestart
    \/ FeedbackIntake
    \/ FeedbackStep(1)
    \/ NotifierStep
SpecMalformed == Init /\ [][NextMalformed]_vars

\* The Feedback Processor and the Notifier, each running its consume loop for ever.
NextLive == NewTask \/ FeedbackIntake \/ FeedbackStep(1) \/ NotifierStep
SpecLive ==
    /\ Init
    /\ [][NextLive]_vars
    /\ WF_vars(FeedbackStep(1))
    /\ WF_vars(NotifierStep)

\* The Feedback Processor and the Notifier on a channel that may be closed while a
\* handler runs, for one feedback message, with undecodable bodies in their queues.
NextSettle ==
    \/ NewTask
    \/ (FeedbackIntake /\ fbSent' <= 1)
    \/ \E queue \in {"filtered_content_queue", "feedback_queue"} : PublishMalformed(queue)
    \/ FeedbackStep(1)
    \/ FeedbackAckRaises(1)
    \/ NotifierStep
    \/ NotifierAckRaises
SpecSettle == Init /\ [][NextSettle]_vars

\* Feedback from any principal for any task, by mail and through the notification
\* buttons of the bot, and the Feedback Processor.
NextFeedbackIntake == NewTask \/ FeedbackIntake \/ BotFeedback \/ FeedbackStep(1)
SpecFeedbackIntake == Init /\ [][NextFeedbackIntake]_vars

\* Every writer of Task rows: the owners' operations and the feedback path.
NextStore == NewTask \/ MailOps \/ BotOps \/ FeedbackIntake \/ FeedbackStep(1)
SpecStore == Init /\ [][NextStore]_vars

\* The owners' requests by mail and through the bot, feedback included, from any
\* principal for any task.
NextOwners == NewTask \/ MailOps \/ BotOps \/ FeedbackIntake
SpecOwners == Init /\ [][NextOwners]_vars

\* The pipeline from the Producer to the Notifier for one poll cycle, with one more
\* raw-content message published in the Consumer's format.
NextFlow ==
    \/ NewTask
    \/ (PollerStep(1) /\ cycles'[1] <= 1)
    \/ (PublishRawData /\ rawData' <= 1)
    \/ ConsumerStepNoFailure
    \/ NotifierStep
SpecFlow == Init /\ [][NextFlow]_vars

\* Two Feedback Processor instances consuming feedback_queue concurrently.
NextFeedbackConc ==
    NewTask \/ FeedbackIntake \/ (\E w \in FeedbackWorkers : FeedbackStep(w))
SpecFeedbackConc == Init /\ [][NextFeedbackConc]_vars

\* The whole pipeline.
Next ==
    \/ NewTask \/ MailOps \/ BotOps
    \/ \E p \in Pollers : PollerStep(p) \/ PollerFailure(p)
    \/ PublishRawData \/ ConsumerStep \/ ConsumerFailure
    \/ \E queue \in Queues : PublishMalformed(queue)
    \/ FeedbackIntake \/ FeedbackStep(1)
    \/ NotifierStep
Spec == Init /\ [][Next]_vars

\* -------------------------------------------------------- claims: Poller
BatchItems(p) == {pBatch[p][k] : k \in 1..Len(pBatch[p])}

\* C1: dedup idempotence. Over successive non-failing poll cycles of one Producer,
\* each (task_id, item_id) is published to raw_content_queue at most once.
C1_DedupIdempotence == \A pr \in Pairs : pubCount[pr] <= 1

\* C1 witness: the second cycle has gone through a batch that overlaps the first
\* cycle's: an item recorded and published by the first cycle was skipped, a new item
\* was published.
C1_Witness ==
    /\ cycles[1] = 2
    /\ ppc[1] = "batch"
    /\ pIdx[1] > Len(pBatch[1])
    /\ \E i \in BatchItems(1), j \in BatchItems(1) :
        /\ processed_items[<<pCur[1], i>>] = 1
        /\ pubCount[<<pCur[1], i>>] = 1
        /\ <<pCur[1], j>> \in pending[1]
        /\ pubCount[<<pCur[1], j>>] = 1

\* C2: when two Producer processes fetch the same item for the same task, at most
\* one of them publishes a RawContent message for that (task_id, item_id).
C2_AtMostOnePublisher == \A pr \in Pairs : Cardinality(pubBy[pr]) <= 1

\* C3: insert and publish are atomic with respect to failure: once a poll cycle has
\* failed (publish raised, or the process was killed), still no (task_id, item_id) is
\* published more than once over that cycle and the later ones.
C3_FailureAtomic == pFailed => \A pr \in Pairs : pubCount[pr] <= 1

\* C4: the store never holds more than one ProcessedItem row for a (task_id, item_id).
C4_UniqueRows == \A pr \in Pairs : processed_items[pr] <= 1

\* C7: a poll cycle processes only tasks whose status was active when the cycle
\* started: a task paused or deleted before the cycle is never fetched, published
\* for or recorded in it.
C7_OnlyActiveAtCycleStart ==
    \A p \in Pollers :
        /\ pTasks[p] \subseteq pActiveAtStart[p]
        /\ ppc[p] = "batch" => pCur[p] \in pActiveAtStart[p]
        /\ \A pr \in pending[p] : pr[1] \in pActiveAtStart[p]

\* C7 witness: a task polled by the first cycle was then paused or deleted; the
\* second cycle, started after that, is publishing for another task.
C7_Witness ==
    \E t \in Tasks :
        /\ cycles[1] = 2
        /\ ppc[1] = "batch"
        /\ pending[1] # {}
        /\ StatusOf(tasks, t) \in {"paused", "deleted", "missing"}
        /\ t \notin pActiveAtStart[1]
        /\ \E i \in Items : processed_items[<<t, i>>] = 1

\* ------------------------------------------------- claims: Filter Worker
\* C5: a RawContent message whose task is deleted when the Filter Worker processes
\* it yields no Notify message.
C5_DeletedTaskGated ==
    cStatusAtLookup \in {"deleted", "missing"} => cNotified = 0

\* C6: a RawContent message whose task is paused when the Filter Worker processes
\* it is discarded: no classifier call, no Notify message.
C6_PausedTaskDiscarded ==
    cStatusAtLookup = "paused" => (cClassified = 0 /\ cNotified = 0)

\* ----------------------------------------------------- claims: Task Store
AllowedTransitions ==
    {<<"active", "paused">>, <<"paused", "active">>,
     <<"active", "deleted">>, <<"paused", "deleted">>}

\* C8: every change of a task's status is active->paused, paused->active,
\* active->deleted or paused->deleted; deleted is terminal.
C8_StatusTransitions ==
    [][\A t \in Tasks :
         (tasks[t].present /\ tasks'[t].present /\ tasks'[t].status # tasks[t].status)
             => <<tasks[t].status, tasks'[t].status>> \in AllowedTransitions]_vars

\* The store without the row of task_id.
WithoutTask(T, task_id) == [T EXCEPT ![task_id] = NoTask]

\* What principal b is told by each handler about task t in store T.
Outcomes(T, b, t) ==
    <<MailPauseReply(T, b, t), MailResumeReply(T, b, t), MailDeleteReply(T, b, t),
      BotPauseReply(T, b, t), BotResumeReply(T, b, t), BotDeleteReply(T, b, t)>>

\* C9: ownership isolation. For pause, resume and delete, what a principal who is
\* not the owner is told about a task equals what it would be told if the task did
\* not exist.
C9_OwnershipIsolation ==
    \A t \in Tasks, b \in Principals :
        (tasks[t].present /\ tasks[t].user # b)
            => Outcomes(tasks, b, t) = Outcomes(WithoutTask(tasks, t), b, t)

\* -------------------------------------------------- claims: Feedback Worker
\* C10: when two Feedback messages F1, F2 carrying the same snapshot P have been
\* processed one after the other, the stored prompt is refine(refine(P, F1), F2).
C10_RefinesStoredPrompt ==
    \A t \in Tasks :
        (/\ tasks[t].present
         /\ fpc[1] = "idle"
         /\ Len(fbDone[t]) = 2
         /\ fbDone[t][1].snapshot = fbDone[t][2].snapshot)
            => tasks[t].current_prompt =
                   Refined(Refined(fbDone[t][1].snapshot, fbDone[t][1].feedback),
                           fbDone[t][2].feedback)

\* The delivered message's refinement succeeded: refine_prompt returned an improved
\* prompt, not the prompt it was given.
RefinementSucceeded == fnew[1] # PromptToRefine(fmsg[1], tasks)

\* The step in which process_message stores a prompt for the delivered message and
\* acknowledges it.
FeedbackStored(t) ==
    /\ fpc[1] = "write"
    /\ fmsg[1].task_id = t
    /\ tasks[t].present
    /\ feedback_queue' = Tail(feedback_queue)

\* C11: feedback round trip. When the Feedback Worker has processed a message with
\* text F whose refinement succeeded, for a task whose stored prompt was P, the stored
\* prompt (which the Filter Worker reads on its next invocation) is refine(P, F).
C11_FeedbackRoundTrip ==
    [][\A t \in Tasks :
         (FeedbackStored(t) /\ RefinementSucceeded)
             => tasks'[t].current_prompt = Refined(tasks[t].current_prompt, fmsg[1].feedback)]_vars

\* C12: when the refinement fails or returns an invalid result, the stored prompt
\* after the message is processed equals the stored prompt before it.
C12_FailedRefinementKeepsPrompt ==
    [][\A t \in Tasks :
         (FeedbackStored(t) /\ ~RefinementSucceeded)
             => tasks'[t].current_prompt = tasks[t].current_prompt]_vars

\* ------------------------------------------ claims: classifier retry policy
\* Every classifier attempt made so far for the delivered message timed out.
AllTimedOut == cClassified > 0 /\ cTimeouts = cClassified

\* C13: retry bound. is_content_relevant makes no more than max_retries attempts; when
\* every attempt times out it returns "not relevant" after the last one: the message
\* yields no Notify message and is acknowledged, once.
C13_RetryBound ==
    /\ cClassified <= max_retries
    /\ AllTimedOut =>
          /\ cNotified = 0
          /\ cpc \in {"classify", "ack", "idle"}
          /\ cClassified = max_retries => cpc \in {"ack", "idle"}
          /\ cpc = "idle" => cAcked

\* C13 witness: a message whose max_retries attempts all timed out was acknowledged.
C13_Witness ==
    /\ cpc = "idle"
    /\ cAcked
    /\ cTimeouts = max_retries
    /\ cClassified = max_retries
    /\ cNotified = 0

\* C14: when the attempts before the last time out, a further attempt is made; when
\* the last attempt answers YES after all the earlier ones timed out, that verdict is
\* used: one Notify message is published (none when the task has no recipient any
\* more or the broker refuses the publish), never two, and the message is acknowledged.
C14_ThirdAttemptVerdict ==
    /\ (AllTimedOut /\ cClassified < max_retries) => cpc = "classify"
    /\ (cClassified = max_retries /\ cTimeouts = max_retries - 1 /\ cLast = "yes") =>
          /\ cpc \in {"notify", "ack", "idle"}
          /\ cpc = "notify" => cNotified = 0
          /\ cpc # "notify" => cNotified = (IF cPub.result = "returned" THEN 1 ELSE 0)
          /\ cpc = "idle" => cAcked

\* C14 witness: two timeouts, YES on the third attempt, one Notify message published,
\* the message acknowledged.
C14_Witness ==
    /\ cpc = "idle"
    /\ cAcked
    /\ cClassified = max_retries
    /\ cTimeouts = max_retries - 1
    /\ cLast = "yes"
    /\ cNotified = 1
    /\ notify_queue # <<>>

\* C15: whatever the outcome of a request, is_content_relevant returns a verdict (or
\* goes round its loop, never after the last attempt) and lets no exception out; a
\* response that cannot be parsed gives "not relevant": no Notify message, and the
\* message is acknowledged.
C15_MalformedFailClosed ==
    /\ \A outcome \in ClassifierOutcomes, attempt \in 0..(max_retries - 1) :
          /\ AttemptResult(outcome, attempt) \in {"relevant", "not_relevant", "retry"}
          /\ AttemptResult(outcome, max_retries - 1) # "retry"
    /\ ~cRaised
    /\ cLast = "parse_error" =>
          /\ cpc \in {"ack", "idle"}
          /\ cNotified = 0
          /\ cpc = "idle" => cAcked

\* C15 witness: a message whose classifier response could not be parsed was
\* acknowledged without a Notify message.
C15_Witness ==
    /\ cpc = "idle"
    /\ cAcked
    /\ cLast = "parse_error"
    /\ cNotified = 0

\* ----------------------------------------------------- claims: Queue client
\* C20: publish returns normally exactly when one basic_publish call succeeded, the
\* message then handed over once with delivery_mode 2; when all PublishAttempts
\* attempts fail it raises, and the caller has published nothing.
C20_PublishReturnsOnlyWhenEnqueued ==
    /\ \A outs \in PublishOutcomes :
          LET r == publish(outs, 0)
          IN /\ r.result = "returned" <=> \E k \in 1..PublishAttempts : outs[k]
             /\ r.result = "raised" <=> \A k \in 1..PublishAttempts : ~outs[k]
             /\ r.result = "returned" =>
                   (r.enqueued = 1 /\ r.delivery_mode = 2 /\ outs[r.attempts])
             /\ r.result = "raised" => (r.enqueued = 0 /\ r.attempts = PublishAttempts)
    /\ cPub.result = "returned" =>
          /\ cNotified = 1
          /\ notify_queue # <<>>
          /\ notify_queue[Len(notify_queue)].task_id = cmsg.task_id
    /\ cPub.result = "raised" => cNotified = 0

\* C20 witness: every attempt of the Consumer's publish call failed, publish raised
\* and no Notify message was enqueued for the message.
C20_Witness ==
    /\ cpc = "ack"
    /\ cLast = "yes"
    /\ cPub.result = "raised"
    /\ cPub.attempts = PublishAttempts
    /\ cNotified = 0

\* ---------------------------------------------------- claims: Queue Broker
\* C16: eventual acknowledgment. Every message delivered to the Filter Worker, the
\* Feedback Worker or the Notifier is eventually acknowledged, also when the
\* collaborator of the worker fails at every attempt.
C16_EventualAck ==
    /\ (cpc = "got") ~> cAcked
    /\ (fpc[1] = "got") ~> fAcked[1]
    /\ (npc = "got") ~> nAcked

\* C17: a message whose body cannot be decoded is acknowledged and dropped by the
\* worker that receives it: no worker leaves it in its queue (requeued by a nack, or
\* unacknowledged by a consume loop that ended).
C17_MalformedDropped == badRequeued = {}

\* C18: at-least-once delivery. A message leaves its queue only in the step that
\* acknowledges it, and is in the queue while it is processed; when the Consumer
\* process ends (killed, or wrapper raised) every message delivered to it is ready in
\* the queue again, and so is a message the Feedback Worker rejected.
C18_AtLeastOnce ==
    [][/\ (raw_queue' # raw_queue /\ Len(raw_queue') <= Len(raw_queue))
            => (cpc = "ack" /\ cpc' = "idle" /\ raw_queue' = Tail(raw_queue))
       /\ (feedback_queue' # feedback_queue /\ Len(feedback_queue') <= Len(feedback_queue))
            => (fpc[1] = "write" /\ fAcked'[1] /\ feedback_queue' = Tail(feedback_queue))
       /\ cpc' \in {"got", "classify", "notify", "ack"}
            => (raw_queue' # <<>> /\ Head(raw_queue') = cmsg')
       /\ fpc'[1] \in {"got", "write"}
            => (feedback_queue' # <<>> /\ Head(feedback_queue') = fmsg'[1])
       /\ (cpc # "dead" /\ cpc' = "dead")
            => (raw_queue' = raw_queue /\ raw_unacked' = 0)
       /\ (fpc[1] # "idle" /\ fpc'[1] = "idle" /\ ~fAcked'[1])
            => feedback_queue' = feedback_queue]_vars

\* C18 witness: a raw-content message whose Consumer process ended before the
\* acknowledgment is delivered a second time, to the process started after it, while
\* the Feedback Worker has a message that it rejected and was handed again.
C18_Witness ==
    /\ cpc = "got"
    /\ cmsg.key = "data"
    /\ cDeliveries = 2
    /\ cStarts = 1
    /\ fpc[1] = "got"
    /\ "feedback" \in badRequeued

\* C19: prefetch of one. The Consumer holds at most one delivered, unacknowledged
\* message, so that the end of its process makes the broker requeue at most one.
C19_PrefetchOne == raw_unacked <= 1 /\ cRequeued <= 1

\* C21: when the broker connection is lost while the Filter Worker is consuming, the
\* worker reconnects and goes on consuming: a lost connection never ends its process.
C21_ReconnectsAfterLoss == cpc # "lost"

\* The tasks whose process_task call has ended in the current cycle of Producer p.
LogTasks(p) == {pLog[p][k].task : k \in 1..Len(pLog[p])}

\* C22: an exception raised while one task is fetched or processed does not end the
\* cycle: every task that was loaded at the start of the cycle is still waiting, being
\* processed or done, and when the Producer goes to sleep process_task has been called
\* for every one of them.
C22_TaskErrorIsolation ==
    \A p \in Pollers :
        /\ ppc[p] # "sleep" =>
              pTasks[p] \cup LogTasks(p) \cup ({pCur[p]} \ {0}) = pActiveAtStart[p]
        /\ (ppc[p] = "sleep" /\ cycles[p] > 0) => LogTasks(p) = pActiveAtStart[p]

\* Witness of C22: in its second cycle the Producer's first task raised, the next task was
\* processed to its commit with an item published, and the Producer went to sleep.
C22_Witness ==
    /\ ppc[1] = "sleep"
    /\ cycles[1] = 2
    /\ Len(pLog[1]) = 2
    /\ pLog[1][1].raised
    /\ ~pLog[1][2].raised
    /\ \E i \in Items : processed_items[<<pLog[1][2].task, i>>] > 0

\* C23: the Notifier makes at most one delivery attempt for a message of
\* filtered_content_queue, and a message whose delivery failed is acknowledged all the
\* same: once process_message has returned, no message for which send_email was
\* called is left in the queue.
C23_NoDeliveryRetry ==
    /\ nSends <= 1
    /\ npc = "idle" => nSends = 0

\* C24: no feedback processing acts on a deleted task. When the Feedback Worker
\* finishes a message whose task has status deleted, the stored prompt is unchanged
\* and no confirmation is published.
C24_DeletedTaskNoFeedback ==
    [][\A t \in Tasks :
         (FeedbackStored(t) /\ tasks[t].status = "deleted")
             => (/\ tasks'[t].current_prompt = tasks[t].current_prompt
                 /\ notify_queue' = notify_queue)]_vars

\* The prompt contains the content-substitution placeholder.
HasPlaceholder(prompt) == \E k \in 1..Len(prompt) : prompt[k] = Placeholder

\* C25: every stored prompt contains the content-substitution placeholder.
C25_PromptHasPlaceholder ==
    \A t \in Tasks : tasks[t].present => HasPlaceholder(tasks[t].current_prompt)

\* C26: last write wins. Whatever Feedback Worker instances have processed messages
\* for a task, and however their transactions interleaved, the stored prompt is the
\* complete prompt that the transaction which committed last wrote.
C26_LastWriteWins ==
    \A t \in Tasks :
        (tasks[t].present /\ fLast[t] # <<>>) => tasks[t].current_prompt = fLast[t]

\* Witness of C26: two instances held messages for task 1 at the same time (the
\* second to commit had queried the row before the first committed), refine returned
\* different improved prompts to them, both committed, and the stored prompt is the
\* one of the later commit.
C26_Witness ==
    /\ \A w \in FeedbackWorkers : fpc[w] = "idle" /\ fAcked[w] /\ fmsg[w].task_id = 1
    /\ "current_prompt" \in fRace
    /\ fnew[1] # fmsg[1].current_prompt
    /\ fnew[2] # fmsg[2].current_prompt
    /\ fnew[1] # fnew[2]
    /\ Len(fbDone[1]) = 2
    /\ feedback_queue = <<>>
    /\ tasks[1].current_prompt = fnew[2]

\* C29: no lost update between an owner's status change and the Feedback Worker's
\* prompt update of the same task: the step that changes the prompt of a row leaves
\* its status and its owner as they are in the store, and the step that changes the
\* status leaves the prompt.
C29_NoLostUpdate ==
    [][\A t \in Tasks :
         (tasks[t].present /\ tasks'[t].present)
             => /\ tasks'[t].current_prompt # tasks[t].current_prompt
                     => (tasks'[t].status = tasks[t].status /\ tasks'[t].user = tasks[t].user)
                /\ tasks'[t].status # tasks[t].status
                     => tasks'[t].current_prompt = tasks[t].current_prompt]_vars

\* Witness of C29: the owner changed the status of task 1 between the Feedback
\* Worker's query and its UPDATE; after both commits the row has the owner's status
\* and the worker's prompt.
C29_Witness ==
    /\ fpc[1] = "idle"
    /\ fAcked[1]
    /\ fmsg[1].task_id = 1
    /\ Len(fbDone[1]) = 1
    /\ "status" \in fRace
    /\ tasks[1].status = "paused"
    /\ tasks[1].current_prompt = fnew[1]
    /\ fnew[1] # fmsg[1].current_prompt

\* C27: ProcessedItem rows cascade with their task. When a task that was created has
\* no row any more, no ProcessedItem row with its task_id is left.
C27_ItemsCascade ==
    \A t \in Tasks :
        (t < nextTaskId /\ ~tasks[t].present)
            => \A i \in Items : processed_items[<<t, i>>] = 0

\* C28: end-to-end flow. Each worker reads the fields the worker before it wrote: a
\* message the Producer published for a task that is active when the Filter Worker
\* handles it is not acknowledged before the classifier was asked about it, and a
\* Notify message of the Filter Worker is not acknowledged by the Notifier before a
\* delivery to the owner was attempted.
C28_EndToEndFlow ==
    /\ (cAcked /\ cmsg.key = "item" /\ cStatusAtLookup = "active") => cClassified >= 1
    /\ (nAcked /\ nmsg.kind = "content") => nTried

\* C30: a pause, resume or delete request of a principal who does not own the task,
\* by mail or through the bot, leaves the task's row (status, prompt, existence) as
\* it is.
C30_NonOwnerLeavesTask ==
    [][\A b \in Principals, t \in Tasks :
         (/\ tasks[t].present
          /\ tasks[t].user # b
          /\ \/ handle_pause_task(b, t) \/ handle_resume_task(b, t)
             \/ handle_delete_task(b, t)
             \/ pause_task(b, t) \/ resume_task(b, t) \/ delete_task(b, t))
             => tasks'[t] = tasks[t]]_vars

\* Witness of C30: task 1, which its owner has paused, is refused to principal 2, who
\* owns task 2, by every mail handler and every bot handler.
C30_Witness ==
    /\ tasks[1].present /\ tasks[1].user = 1 /\ tasks[1].status = "paused"
    /\ tasks[2].present /\ tasks[2].user = 2
    /\ MailPauseReply(tasks, 2, 1) = "not_found_or_no_permission"
    /\ MailResumeReply(tasks, 2, 1) = "not_found_or_no_permission"
    /\ MailDeleteReply(tasks, 2, 1) = "not_found_or_no_permission"
    /\ BotPauseReply(tasks, 2, 1) = "no_permission"
    /\ BotResumeReply(tasks, 2, 1) = "no_permission"
    /\ BotDeleteReply(tasks, 2, 1) = "no_permission"

\* ------------------------------------------------ claims: frames and limits
\* C31: every step of the Filter Worker on a RawContent message (relevant, not
\* relevant, task missing, classifier failing, internal error) leaves the Task Store
\* as it is: no Task row and no ProcessedItem row is created, changed or deleted.
C31_FilterLeavesStore ==
    [][consumerVars' # consumerVars
         => (tasks' = tasks /\ nextTaskId' = nextTaskId
             /\ processed_items' = processed_items)]_vars

\* Witness of C31: the Filter Worker has handled a message of an existing task to
\* its acknowledgment, the classifier was asked and the Notify message published.
C31_Witness ==
    /\ cAcked
    /\ cClassified >= 1
    /\ cNotified = 1
    /\ tasks[cmsg.task_id].present

\* C32: the Feedback Worker changes only the prompt field of the task its message
\* names: in every step of the worker the status, the owner and the source descriptor
\* of that task, and every field of every other task, stay as they are.
C32_FeedbackWritesPromptOnly ==
    [][fpc' # fpc
         => /\ nextTaskId' = nextTaskId
            /\ \A t \in Tasks :
                 \/ tasks'[t] = tasks[t]
                 \/ /\ t = fmsg[1].task_id
                    /\ tasks[t].present
                    /\ tasks'[t] = [tasks[t] EXCEPT
                                      !.current_prompt = tasks'[t].current_prompt]]_vars

\* Witness of C32: the Feedback Worker has stored an improved prompt for task 1 while
\* task 2 exists and task 1 is paused.
C32_Witness ==
    /\ fpc[1] = "idle"
    /\ fAcked[1]
    /\ fmsg[1].task_id = 1
    /\ fLast[1] = fnew[1]
    /\ fnew[1] # fmsg[1].current_prompt
    /\ tasks[1].current_prompt = fnew[1]
    /\ tasks[1].status = "paused"
    /\ tasks[1].source_type = "rss"
    /\ tasks[2].present

\* C33: RabbitMQClient.connect terminates. A call makes at most max_retries attempts,
\* returns at the first attempt the broker accepts, waits retry_delay after each failed
\* attempt that is followed by another, and raises after the max_retries-th failure,
\* which ends the starting process.
C33_ConnectTerminates ==
    /\ cConn.result \in {"none", "connected", "raised"}
    /\ cConn.attempts <= mq_max_retries
    /\ \A k \in 1..Len(cConn.sleeps) : cConn.sleeps[k] = retry_delay
    /\ cConn.result = "connected"
         => (/\ cConn.attempts = cConn.first
             /\ Len(cConn.sleeps) = cConn.attempts - 1)
    /\ cConn.result = "raised"
         => (/\ cConn.first = 0
             /\ cConn.attempts = mq_max_retries
             /\ Len(cConn.sleeps) = mq_max_retries - 1
             /\ cpc = "dead")

\* Witness of C33: a Consumer process was started while the broker refused every
\* attempt: connect raised after max_retries attempts and the process has ended.
C33_Witness ==
    /\ cConn.result = "raised"
    /\ cConn.attempts = mq_max_retries
    /\ cpc = "dead"
    /\ cStarts = 1

\* C34: classifier retries back off exponentially. Before the retry that follows the
\* n-th failed attempt (n from 0) is_content_relevant waits 2^n seconds, and it does
\* not wait after the last attempt.
C34_ExponentialBackoff ==
    /\ Len(cSleeps) <= max_retries - 1
    /\ \A k \in 1..Len(cSleeps) : cSleeps[k] = 2 ^ (k - 1)
    /\ cpc = "classify" => Len(cSleeps) = cattempt
    /\ (cpc = "ack" /\ cClassified = max_retries) => Len(cSleeps) = max_retries - 1

\* Witness of C34: every attempt for the delivered message failed transiently; the
\* worker waited 1 s and 2 s, then gave the fail-closed verdict without a third wait.
C34_Witness ==
    /\ cpc = "ack"
    /\ cClassified = max_retries
    /\ cLast \in {"timeout", "request_error", "other_error"}
    /\ cSleeps = <<1, 2>>
    /\ cNotified = 0

\* C35: a RawContent message of an active task that the classifier judged relevant
\* is not acknowledged unless a Notify message was published for it.
C35_RelevantNotLost ==
    (/\ cAcked
     /\ cLast = "yes"
     /\ cStatusAtLookup = "active"
     /\ StatusOf(tasks, cmsg.task_id) = "active")
        => cNotified >= 1

\* C36: no item is silently lost by the Poller. A ProcessedItem row is committed for
\* a (task_id, item_id) only when a RawContent message for it was published, so an
\* item whose publish raised is not recorded and is still new to the cycle that
\* fetches it again.
C36_NoSilentLoss ==
    /\ [](\A pr \in Pairs : processed_items[pr] > 0 => pubCount[pr] > 0)
    /\ [][\A pr \in pRaisedFor' \ pRaisedFor : processed_items'[pr] = 0]_vars

\* Witness of C36: publish_message raised for an item in the first cycle; the second
\* cycle fetched it again, published it and committed its row.
C36_Witness ==
    /\ cycles[1] = 2
    /\ ppc[1] = "sleep"
    /\ \E pr \in pRaisedFor : pubCount[pr] = 1 /\ processed_items[pr] = 1

\* C37: dedup is scoped per task. Every item with an id that the item loop has passed
\* for the task in hand has exactly one RawContent message published for that task,
\* whatever rows other tasks hold for the same item_id: a pass skips an item only
\* because of a row of its own (task_id, item_id).
C37_DedupPerTask ==
    /\ \A p \in Pollers :
         ppc[p] = "batch" =>
             \A k \in 1..(pIdx[p] - 1) :
                 pBatch[p][k] # 0 => pubCount[<<pCur[p], pBatch[p][k]>>] = 1
    /\ \A pr \in Pairs : processed_items[pr] > 0 => pubCount[pr] = 1

\* Witness of C37: the row of (task 1, item i) is committed, then the same cycle
\* fetches item i for task 2 and publishes it for task 2 as well.
C37_Witness ==
    /\ ppc[1] = "batch"
    /\ pCur[1] = 2
    /\ pIdx[1] = 2
    /\ pBatch[1][1] # 0
    /\ processed_items[<<1, pBatch[1][1]>>] = 1
    /\ pubCount[<<1, pBatch[1][1]>>] = 1
    /\ pubCount[<<2, pBatch[1][1]>>] = 1

\* C38: in the Feedback Processor and the Notifier every delivery handled by
\* process_message is settled exactly once: when the handler returns, exactly one
\* basic_ack or basic_nack call has been made for the delivery tag.
C38_SettledExactlyOnce ==
    [][/\ \A w \in FeedbackWorkers :
            (fpc[w] # "idle" /\ fpc'[w] = "idle") => Len(fSettle'[w]) = 1
       /\ (npc # "idle" /\ npc' = "idle") => Len(nSettle') = 1]_vars

\* C39: a Feedback message for a task is published only when the principal submitting
\* the feedback owns the task: feedback by mail or through the bot from a principal
\* who does not own the task, or for a task_id that has no row, leaves the feedback
\* queue as it is.
C39_FeedbackOnlyFromOwner ==
    [][\A b \in Principals, t \in Tasks :
         (/\ ~tasks[t].present \/ tasks[t].user # b
          /\ \/ \E text \in Texts : handle_feedback(b, t, text)
             \/ process_feedback(b, t))
             => feedback_queue' = feedback_queue]_vars

====
